---- MODULE Spec2Model ----
(***************************************************************************)
(* Model of scripts/check_regressions.py: the performance regression       *)
(* checker.  The script is a single-threaded batch program; main() is      *)
(* modelled as a sequence of steps (load current, load baseline, analyze,  *)
(* report, summary and exit check), and its pure functions as operators.   *)
(* The file is run as a script: the __main__ guard imports datetime, which *)
(* main() and generate_regression_report use for the timestamp.            *)
(*                                                                         *)
(* Numbers.  Durations and thresholds are floats in the script.  The model *)
(* draws them from integers, and baselines from {0, 100}, for which the    *)
(* script's ((current - baseline) / baseline) * 100 is an exact integer in *)
(* IEEE double arithmetic as well, so integer arithmetic computes what the *)
(* script computes on every input the model draws.                         *)
(*                                                                         *)
(* Dictionaries.  A Python dict is a sequence of <<key, value>> pairs with *)
(* distinct keys, in insertion order (dicts iterate in insertion order).   *)
(***************************************************************************)
EXTENDS Integers, Sequences, FiniteSets, TLC

VARIABLES
    pc,               \* position in main() or in the function under analysis
    args,             \* parsed command line: fail_on_regression, verbose, threshold
    current_file,     \* the file read through --current
    baseline_file,    \* the file read through --baseline
    current_results,  \* main: current_results
    baseline_results, \* main: baseline_results
    regressions,      \* main: regressions
    output_file,      \* the file written through --output
    stdout,           \* the lines printed, as tags
    exit_code,        \* process exit status, set when pc becomes "exited"
    fault,            \* uncaught exception that ended the process, or "none"
    arg,              \* argument of a function applied on its own
    ret               \* its return value

vars == <<pc, args, current_file, baseline_file, current_results,
          baseline_results, regressions, output_file, stdout, exit_code,
          fault, arg, ret>>

(***************************************************************************)
(* Bounds and program constants                                            *)
(***************************************************************************)
\* metric names available to a run of main()
MaxMetrics == 4
\* metric names available to analyze_regressions applied on its own
MaxAnalyzed == 3
\* rows of a baseline file handed to load_baseline_results on its own
MaxRows == 3
\* metric names of the lists handed to print_regression_summary on its own
MaxSummarized == 6
\* metric names of the lists handed to the ranking sort on its own
MaxRanked == 3
\* longest record list handed to check_exit_conditions on its own
MaxRecords == 5
\* largest magnitude of a change handed to categorize_severity on its own
MaxChange == 32

\* "Top 5 improvements"
TopImprovements == 5
\* argparse default of --threshold
DefaultThreshold == 5
\* "Allow up to 3 major regressions"
MajorAllowance == 3

Severities == {"critical", "major", "minor", "negligible",
               "minor_improvement", "major_improvement"}

Abs(x) == IF x < 0 THEN -x ELSE x

(***************************************************************************)
(* Python dict as an insertion-ordered sequence of pairs                   *)
(***************************************************************************)
DictKeys(d) == {d[i][1] : i \in 1..Len(d)}

DictHas(d, k) == \E i \in 1..Len(d) : d[i][1] = k

DictGet(d, k) == d[CHOOSE i \in 1..Len(d) : d[i][1] = k][2]

\* d[k] = v: a new key is appended, an existing key keeps its position
DictSet(d, k, v) ==
    IF DictHas(d, k)
    THEN [i \in 1..Len(d) |-> IF d[i][1] = k THEN <<k, v>> ELSE d[i]]
    ELSE Append(d, <<k, v>>)

\* all dicts over the keys K with values in V, keys in ascending order
RECURSIVE AscDicts(_, _)
AscDicts(K, V) ==
    IF K = {} THEN {<<>>}
    ELSE LET k == CHOOSE x \in K : \A y \in K : x >= y
             rest == AscDicts(K \ {k}, V)
         IN rest \cup {Append(d, <<k, v>>) : d \in rest, v \in V}

\* all dicts over the keys K with values in V, in every insertion order
RECURSIVE AllDicts(_, _)
AllDicts(K, V) ==
    IF K = {} THEN {<<>>}
    ELSE {<<>>} \cup
         UNION {{<<<<k, v>>>> \o d : d \in AllDicts(K \ {k}, V), v \in V} : k \in K}

(***************************************************************************)
(* JSON documents and CSV files                                            *)
(***************************************************************************)
\* json.load result: an object (with or without the "averageTimes" key and
\* with or without other keys) or a non-empty array
EmptyObject == [type |-> "object", hasAverageTimes |-> FALSE,
                hasOther |-> FALSE, averageTimes |-> <<>>]

ObjectWithout == [type |-> "object", hasAverageTimes |-> FALSE,
                  hasOther |-> TRUE, averageTimes |-> <<>>]

ArrayDoc == [type |-> "array", hasAverageTimes |-> FALSE,
             hasOther |-> TRUE, averageTimes |-> <<>>]

ObjectWith(times) == [type |-> "object", hasAverageTimes |-> TRUE,
                      hasOther |-> FALSE, averageTimes |-> times]

\* Python truth value of a loaded document: an empty container is false
Truthy(doc) == doc.hasAverageTimes \/ doc.hasOther

MissingFile == [kind |-> "missing", doc |-> EmptyObject, rows |-> <<>>]

UnparseableFile == [kind |-> "unparseable", doc |-> EmptyObject, rows |-> <<>>]

JsonFile(doc) == [kind |-> "json", doc |-> doc, rows |-> <<>>]

CsvFile(rows) == [kind |-> "csv", doc |-> EmptyObject, rows |-> rows]

\* a CSV field holding the decimal text of n, and one holding other text
Num(n) == <<"num", n>>

Text == <<"text", 0>>

(***************************************************************************)
(* load_current_results                                                    *)
(***************************************************************************)
load_current_results(file) ==
    IF file.kind = "json" THEN file.doc ELSE EmptyObject

(***************************************************************************)
(* load_baseline_results                                                   *)
(***************************************************************************)
\* load_rows with break in place of continue at a row that does not parse
RECURSIVE load_rows_break(_, _)
load_rows_break(rows, baseline) ==
    IF rows = <<>> THEN baseline
    ELSE LET row == Head(rows)
         IN IF Len(row) < 2
            THEN load_rows_break(Tail(rows), baseline)
            ELSE IF row[2][1] = "num"
            THEN load_rows_break(Tail(rows), DictSet(baseline, row[1], row[2][2]))
            ELSE baseline

RECURSIVE load_rows(_, _)
load_rows(rows, baseline) ==
    IF rows = <<>> THEN baseline
    ELSE LET row == Head(rows)
         IN IF Len(row) >= 2 /\ row[2][1] = "num"
            THEN load_rows(Tail(rows), DictSet(baseline, row[1], row[2][2]))
            ELSE load_rows(Tail(rows), baseline)

load_baseline_results(file) ==
    IF file.kind = "csv" THEN load_rows(file.rows, <<>>) ELSE <<>>

(***************************************************************************)
(* categorize_severity                                                     *)
(***************************************************************************)
\* categorize_severity with >= in place of > at the critical border
categorize_severity_ge(change_percent, threshold) ==
    LET abs_change == Abs(change_percent)
    IN IF change_percent > 0
       THEN IF abs_change >= threshold * 3 THEN "critical"
            ELSE IF abs_change > threshold * 2 THEN "major"
            ELSE IF abs_change > threshold THEN "minor"
            ELSE "negligible"
       ELSE IF abs_change > threshold * 2 THEN "major_improvement"
            ELSE IF abs_change > threshold THEN "minor_improvement"
            ELSE "negligible"

\* categorize_severity with the direction test inverted
categorize_severity_swapped(change_percent, threshold) ==
    LET abs_change == Abs(change_percent)
    IN IF change_percent < 0
       THEN IF abs_change > threshold * 3 THEN "critical"
            ELSE IF abs_change > threshold * 2 THEN "major"
            ELSE IF abs_change > threshold THEN "minor"
            ELSE "negligible"
       ELSE IF abs_change > threshold * 2 THEN "major_improvement"
            ELSE IF abs_change > threshold THEN "minor_improvement"
            ELSE "negligible"

categorize_severity(change_percent, threshold) ==
    LET abs_change == Abs(change_percent)
    IN IF change_percent > 0
       THEN IF abs_change > threshold * 3 THEN "critical"
            ELSE IF abs_change > threshold * 2 THEN "major"
            ELSE IF abs_change > threshold THEN "minor"
            ELSE "negligible"
       ELSE IF abs_change > threshold * 2 THEN "major_improvement"
            ELSE IF abs_change > threshold THEN "minor_improvement"
            ELSE "negligible"

(***************************************************************************)
(* analyze_regressions                                                     *)
(***************************************************************************)
\* ((current_time - baseline_time) / baseline_time) * 100, for a baseline
\* that is not 0; exact for the baselines the model draws
percent_change(current_time, baseline_time) ==
    LET n == (current_time - baseline_time) * 100
    IN IF baseline_time > 0 THEN n \div baseline_time
       ELSE (-n) \div (-baseline_time)

\* regression_info with the improvement test on the magnitude of the change
regression_info_magnitude(metric_name, current_time, baseline_time, threshold) ==
    LET change_percent == percent_change(current_time, baseline_time)
    IN [testName |-> metric_name,
        currentValue |-> current_time,
        baselineValue |-> baseline_time,
        percentageChange |-> change_percent,
        isRegression |-> change_percent > threshold,
        isImprovement |-> Abs(change_percent) > threshold,
        severity |-> categorize_severity(change_percent, threshold)]

regression_info(metric_name, current_time, baseline_time, threshold) ==
    LET change_percent == percent_change(current_time, baseline_time)
    IN [testName |-> metric_name,
        currentValue |-> current_time,
        baselineValue |-> baseline_time,
        percentageChange |-> change_percent,
        isRegression |-> change_percent > threshold,
        isImprovement |-> change_percent < -threshold,
        severity |-> categorize_severity(change_percent, threshold)]

\* sort_key without the negation: ascending absolute change
sort_key_ascending(x) == <<IF x.isRegression THEN 0 ELSE 1, Abs(x.percentageChange)>>

\* the sort key (not x["isRegression"], -abs(x["percentageChange"])),
\* compared as Python compares tuples (False < True)
sort_key(x) == <<IF x.isRegression THEN 0 ELSE 1, -Abs(x.percentageChange)>>

KeyLess(a, b) == a[1] < b[1] \/ (a[1] = b[1] /\ a[2] < b[2])

\* an unstable insertion: x goes before the elements whose key is equal
InsertStable_before(s, x) ==
    LET before == {i \in 1..Len(s) : KeyLess(sort_key(s[i]), sort_key(x))}
        n == Cardinality(before)
    IN SubSeq(s, 1, n) \o <<x>> \o SubSeq(s, n + 1, Len(s))

\* list.sort is stable: x goes after every element whose key is not greater
InsertStable(s, x) ==
    LET before == {i \in 1..Len(s) : ~KeyLess(sort_key(x), sort_key(s[i]))}
        n == Cardinality(before)
    IN SubSeq(s, 1, n) \o <<x>> \o SubSeq(s, n + 1, Len(s))

RECURSIVE list_sort(_)
list_sort(s) ==
    IF s = <<>> THEN <<>>
    ELSE InsertStable(list_sort(SubSeq(s, 1, Len(s) - 1)), s[Len(s)])

\* compare_loop with break in place of continue at a metric without baseline
RECURSIVE compare_loop_break(_, _, _, _)
compare_loop_break(items, baseline, threshold, acc) ==
    IF items = <<>> THEN [fault |-> "none", regressions |-> acc]
    ELSE LET metric_name == Head(items)[1]
             current_time == Head(items)[2]
         IN IF ~DictHas(baseline, metric_name)
            THEN [fault |-> "none", regressions |-> acc]
            ELSE IF DictGet(baseline, metric_name) = 0
            THEN [fault |-> "ZeroDivisionError", regressions |-> <<>>]
            ELSE compare_loop_break(Tail(items), baseline, threshold,
                     Append(acc, regression_info(metric_name, current_time,
                                     DictGet(baseline, metric_name), threshold)))

\* the for loop over current_times.items(): the records appended so far, or
\* the ZeroDivisionError raised at the first shared metric whose baseline is 0
RECURSIVE compare_loop(_, _, _, _)
compare_loop(items, baseline, threshold, acc) ==
    IF items = <<>> THEN [fault |-> "none", regressions |-> acc]
    ELSE LET metric_name == Head(items)[1]
             current_time == Head(items)[2]
         IN IF ~DictHas(baseline, metric_name)
            THEN compare_loop(Tail(items), baseline, threshold, acc)
            ELSE IF DictGet(baseline, metric_name) = 0
            THEN [fault |-> "ZeroDivisionError", regressions |-> <<>>]
            ELSE compare_loop(Tail(items), baseline, threshold,
                     Append(acc, regression_info(metric_name, current_time,
                                     DictGet(baseline, metric_name), threshold)))

\* returns the ranked list, or raises: .get on a document that is not an
\* object is an AttributeError
analyze_regressions(current, baseline, threshold) ==
    IF current.type # "object"
    THEN [fault |-> "AttributeError", regressions |-> <<>>]
    ELSE LET current_times == IF current.hasAverageTimes
                              THEN current.averageTimes ELSE <<>>
             looped == compare_loop(current_times, baseline, threshold, <<>>)
         IN IF looped.fault # "none" THEN looped
            ELSE [fault |-> "none", regressions |-> list_sort(looped.regressions)]

(***************************************************************************)
(* generate_regression_report                                              *)
(***************************************************************************)
\* len([r for r in regressions if r["severity"] == severity])
count_severity(regs, severity) ==
    Cardinality({i \in 1..Len(regs) : regs[i].severity = severity})

\* len([r for r in regressions if r["isRegression"]])
count_regressions(regs) ==
    Cardinality({i \in 1..Len(regs) : regs[i].isRegression})

\* len([r for r in regressions if r["isImprovement"]])
count_improvements(regs) ==
    Cardinality({i \in 1..Len(regs) : regs[i].isImprovement})

generate_regression_report(regs) ==
    [summary |->
        [total_metrics |-> Len(regs),
         regressions |-> count_regressions(regs),
         improvements |-> count_improvements(regs),
         critical_regressions |-> count_severity(regs, "critical"),
         major_regressions |-> count_severity(regs, "major")],
     details |-> regs]

\* the report main() writes itself when there is no baseline
empty_report ==
    [summary |->
        [total_metrics |-> 0, regressions |-> 0, improvements |-> 0,
         critical_regressions |-> 0, major_regressions |-> 0],
     details |-> <<>>]

NoFile == [written |-> FALSE, report |-> empty_report]

Written(report) == [written |-> TRUE, report |-> report]

(***************************************************************************)
(* check_exit_conditions                                                   *)
(***************************************************************************)
\* the line check_exit_conditions prints
exit_message(regs) ==
    LET critical_count == count_severity(regs, "critical")
        major_count == count_severity(regs, "major")
    IN IF critical_count > 0 THEN "FAILURE: critical"
       ELSE IF major_count > MajorAllowance THEN "FAILURE: too many major"
       ELSE IF major_count > 0 THEN "WARNING: major"
       ELSE "SUCCESS"

\* check_exit_conditions failing at the allowance instead of above it
check_exit_conditions_ge(regs) ==
    LET critical_count == count_severity(regs, "critical")
        major_count == count_severity(regs, "major")
    IN IF critical_count > 0 THEN 1
       ELSE IF major_count >= MajorAllowance THEN 1
       ELSE IF major_count > 0 THEN 0
       ELSE 0

check_exit_conditions(regs) ==
    LET critical_count == count_severity(regs, "critical")
        major_count == count_severity(regs, "major")
    IN IF critical_count > 0 THEN 1
       ELSE IF major_count > MajorAllowance THEN 1
       ELSE IF major_count > 0 THEN 0
       ELSE 0

(***************************************************************************)
(* print_regression_summary and the one-line summary of main()             *)
(***************************************************************************)
\* main() prints the full summary when --verbose is given or a record is a
\* regression, and two short lines otherwise
summary_lines(regs, verbose) ==
    IF verbose \/ count_regressions(regs) > 0
    THEN <<"PERFORMANCE REGRESSION ANALYSIS">>
    ELSE <<"Regression analysis complete">>

IsCritical(r) == r.severity = "critical"

IsMajor(r) == r.severity = "major"

IsImprovement(r) == r.isImprovement

\* print_regression_summary showing the last five improvements
print_regression_summary_tail(regs) ==
    LET improvements == SelectSeq(regs, IsImprovement)
    IN [critical |-> SelectSeq(regs, IsCritical),
        major |-> SelectSeq(regs, IsMajor),
        improvements |->
            IF Len(improvements) <= TopImprovements THEN improvements
            ELSE SubSeq(improvements, Len(improvements) - TopImprovements + 1,
                        Len(improvements))]

\* the records print_regression_summary lists under CRITICAL REGRESSIONS
\* DETECTED, MAJOR REGRESSIONS and TOP IMPROVEMENTS, in the order printed;
\* improvements[:5] is a new list and regressions is only read
print_regression_summary(regs) ==
    LET improvements == SelectSeq(regs, IsImprovement)
    IN [critical |-> SelectSeq(regs, IsCritical),
        major |-> SelectSeq(regs, IsMajor),
        improvements |->
            IF Len(improvements) <= TopImprovements THEN improvements
            ELSE SubSeq(improvements, 1, TopImprovements)]

(***************************************************************************)
(* Inputs                                                                  *)
(***************************************************************************)
MainNames == 1..MaxMetrics

\* against a baseline of 100 and the default threshold: negligible, major
\* and critical
MainCurrentValues == {100, 112, 120}

BaselineValues == {0, 100}

Arguments == [fail_on_regression : BOOLEAN, verbose : BOOLEAN,
              threshold : {DefaultThreshold}]

CurrentFiles ==
    {MissingFile, UnparseableFile, JsonFile(EmptyObject),
     JsonFile(ObjectWithout), JsonFile(ArrayDoc)}
    \cup {JsonFile(ObjectWith(t)) : t \in AscDicts(MainNames, MainCurrentValues)}

BaselineFiles ==
    {MissingFile}
    \cup {CsvFile(rows) :
            rows \in AscDicts(MainNames, {Num(v) : v \in BaselineValues})}

(***************************************************************************)
(* main                                                                    *)
(***************************************************************************)
Init ==
    /\ pc = "load_current"
    /\ args \in Arguments
    /\ current_file = MissingFile
    /\ baseline_file = MissingFile
    /\ current_results = EmptyObject
    /\ baseline_results = <<>>
    /\ regressions = <<>>
    /\ output_file = NoFile
    /\ stdout = <<>>
    /\ exit_code = 0
    /\ fault = "none"
    /\ arg = <<>>
    /\ ret = <<>>

\* current_results = load_current_results(args.current); sys.exit(1) if falsy
LoadCurrent ==
    /\ pc = "load_current"
    /\ \E file \in CurrentFiles :
        LET loaded == load_current_results(file)
        IN /\ current_file' = file
           /\ current_results' = loaded
           /\ IF ~Truthy(loaded)
              THEN /\ stdout' = Append(stdout, "Error: Could not load current results")
                   /\ exit_code' = 1
                   /\ pc' = "exited"
              ELSE /\ pc' = "load_baseline"
                   /\ UNCHANGED <<stdout, exit_code>>
    /\ UNCHANGED <<args, baseline_file, baseline_results, regressions,
                   output_file, fault, arg, ret>>

\* LoadBaseline without the return after the empty report
LoadBaseline_fallthrough ==
    /\ pc = "load_baseline"
    /\ \E file \in BaselineFiles :
        LET loaded == load_baseline_results(file)
        IN /\ baseline_file' = file
           /\ baseline_results' = loaded
           /\ pc' = "analyze"
           /\ IF loaded = <<>>
              THEN /\ stdout' = Append(stdout, "Warning: No baseline data available")
                   /\ output_file' = Written(empty_report)
                   /\ UNCHANGED exit_code
              ELSE UNCHANGED <<stdout, output_file, exit_code>>
    /\ UNCHANGED <<args, current_file, current_results, regressions, fault,
                   arg, ret>>

\* baseline_results = load_baseline_results(args.baseline); without a
\* baseline main() writes the empty report and returns
LoadBaseline ==
    /\ pc = "load_baseline"
    /\ \E file \in BaselineFiles :
        LET loaded == load_baseline_results(file)
        IN /\ baseline_file' = file
           /\ baseline_results' = loaded
           /\ IF loaded = <<>>
              THEN /\ stdout' = Append(stdout, "Warning: No baseline data available")
                   /\ output_file' = Written(empty_report)
                   /\ exit_code' = 0
                   /\ pc' = "exited"
              ELSE /\ pc' = "analyze"
                   /\ UNCHANGED <<stdout, output_file, exit_code>>
    /\ UNCHANGED <<args, current_file, current_results, regressions, fault,
                   arg, ret>>

\* regressions = analyze_regressions(...); an exception it raises is not
\* caught anywhere, so the interpreter ends the process with status 1
Analyze ==
    /\ pc = "analyze"
    /\ LET result == analyze_regressions(current_results, baseline_results,
                                         args.threshold)
       IN IF result.fault # "none"
          THEN /\ fault' = result.fault
               /\ exit_code' = 1
               /\ pc' = "exited"
               /\ UNCHANGED regressions
          ELSE /\ regressions' = result.regressions
               /\ pc' = "report"
               /\ UNCHANGED <<fault, exit_code>>
    /\ UNCHANGED <<args, current_file, baseline_file, current_results,
                   baseline_results, output_file, stdout, arg, ret>>

\* report = generate_regression_report(regressions, args.output)
Report ==
    /\ pc = "report"
    /\ output_file' = Written(generate_regression_report(regressions))
    /\ pc' = "summary"
    /\ UNCHANGED <<args, current_file, baseline_file, current_results,
                   baseline_results, regressions, stdout, exit_code, fault,
                   arg, ret>>

\* the summary, then the exit check: sys.exit(check_exit_conditions(...))
\* under --fail-on-regression, and a normal return (status 0) without it
Finish ==
    /\ pc = "summary"
    /\ LET printed == stdout \o summary_lines(regressions, args.verbose)
       IN IF args.fail_on_regression
          THEN /\ stdout' = Append(printed, exit_message(regressions))
               /\ exit_code' = check_exit_conditions(regressions)
          ELSE /\ stdout' = printed
               /\ exit_code' = 0
    /\ pc' = "exited"
    /\ UNCHANGED <<args, current_file, baseline_file, current_results,
                   baseline_results, regressions, output_file, fault, arg, ret>>

Next == LoadCurrent \/ LoadBaseline \/ Analyze \/ Report \/ Finish

Spec == Init /\ [][Next]_vars

(***************************************************************************)
(* analyze_regressions applied on its own, to every document, baseline and *)
(* threshold of a bounded set                                              *)
(***************************************************************************)
AnalyzedNames == 1..MaxAnalyzed

\* against a baseline of 100: changes of -10, 0, +10 and +30 percent, which
\* sit on and around the bucket borders of the thresholds 5 and 10
AnalyzedCurrentValues == {90, 100, 110, 130}

\* a negative threshold is accepted by argparse as well
AnalyzedThresholds == {-5, 0, 5, 10}

AnalyzedDocuments ==
    {ObjectWithout, ArrayDoc}
    \cup {ObjectWith(t) : t \in AllDicts(AnalyzedNames, AnalyzedCurrentValues)}

InitAnalyze ==
    /\ pc = "analyze"
    /\ args \in [fail_on_regression : {FALSE}, verbose : {FALSE},
                  threshold : AnalyzedThresholds]
    /\ current_file = MissingFile
    /\ baseline_file = MissingFile
    /\ current_results \in AnalyzedDocuments
    /\ baseline_results \in AscDicts(AnalyzedNames, BaselineValues)
    /\ regressions = <<>>
    /\ output_file = NoFile
    /\ stdout = <<>>
    /\ exit_code = 0
    /\ fault = "none"
    /\ arg = <<>>
    /\ ret = <<>>

NextAnalyze == Analyze

SpecAnalyze == InitAnalyze /\ [][NextAnalyze]_vars

(***************************************************************************)
(* categorize_severity applied on its own                                  *)
(***************************************************************************)
SeverityThresholds == {-5, 0, 5, 10}

InitSeverity ==
    /\ pc = "categorize_severity"
    /\ arg \in [change_percent : (-MaxChange)..MaxChange,
                 threshold : SeverityThresholds]
    /\ ret = <<>>
    /\ args = [fail_on_regression |-> FALSE, verbose |-> FALSE,
               threshold |-> DefaultThreshold]
    /\ current_file = MissingFile
    /\ baseline_file = MissingFile
    /\ current_results = EmptyObject
    /\ baseline_results = <<>>
    /\ regressions = <<>>
    /\ output_file = NoFile
    /\ stdout = <<>>
    /\ exit_code = 0
    /\ fault = "none"

CategorizeSeverity ==
    /\ pc = "categorize_severity"
    /\ ret' = categorize_severity(arg.change_percent, arg.threshold)
    /\ pc' = "categorize_severity returned"
    /\ UNCHANGED <<args, current_file, baseline_file, current_results,
                   baseline_results, regressions, output_file, stdout,
                   exit_code, fault, arg>>

NextSeverity == CategorizeSeverity

SpecSeverity == InitSeverity /\ [][NextSeverity]_vars

(***************************************************************************)
(* check_exit_conditions applied on its own, to every list of records of a *)
(* bounded length; it reads the severity field only                        *)
(***************************************************************************)
RecordLists ==
    UNION {[1..n -> [severity : Severities]] : n \in 0..MaxRecords}

InitExit ==
    /\ pc = "check_exit_conditions"
    /\ arg \in RecordLists
    /\ ret = <<>>
    /\ args = [fail_on_regression |-> TRUE, verbose |-> FALSE,
               threshold |-> DefaultThreshold]
    /\ current_file = MissingFile
    /\ baseline_file = MissingFile
    /\ current_results = EmptyObject
    /\ baseline_results = <<>>
    /\ regressions = <<>>
    /\ output_file = NoFile
    /\ stdout = <<>>
    /\ exit_code = 0
    /\ fault = "none"

CheckExitConditions ==
    /\ pc = "check_exit_conditions"
    /\ ret' = check_exit_conditions(arg)
    /\ stdout' = Append(stdout, exit_message(arg))
    /\ pc' = "check_exit_conditions returned"
    /\ UNCHANGED <<args, current_file, baseline_file, current_results,
                   baseline_results, regressions, output_file, exit_code,
                   fault, arg>>

NextExit == CheckExitConditions

SpecExit == InitExit /\ [][NextExit]_vars

(***************************************************************************)
(* Properties                                                              *)
(***************************************************************************)
Printed(line) == \E i \in 1..Len(stdout) : stdout[i] = line

NumberOf(regs, severity) ==
    Cardinality({i \in 1..Len(regs) : regs[i].severity = severity})

\* the verdict FAIL of the decision policy: a critical record, or more than
\* three major ones
VerdictFail(regs) ==
    NumberOf(regs, "critical") >= 1 \/ NumberOf(regs, "major") >= 4

\* the metrics of the current document, and those it shares with the baseline
CurrentTimes ==
    IF current_results.hasAverageTimes THEN current_results.averageTimes ELSE <<>>

SharedNames == DictKeys(CurrentTimes) \cap DictKeys(baseline_results)

\* analyze_regressions was entered with an object and a threshold >= 0 and
\* has returned its list
Analyzed == pc = "report" /\ args.threshold >= 0

\* C1: once the current results and a non-empty baseline are loaded, main
\* exits non-zero if and only if --fail-on-regression is set and the verdict
\* on the analysed records is FAIL; without the flag it always exits 0.
C1_ExitNonZeroIffFlagAndFail ==
    (pc = "exited" /\ Truthy(current_results) /\ baseline_results # <<>>)
    => (exit_code # 0 <=> (args.fail_on_regression /\ VerdictFail(regressions)))

\* C2: check_exit_conditions decides by the counts of critical and major
\* records only: a critical fails (1); else more than 3 majors fail (1);
\* else 1 to 3 majors warn (0); else success (0).
C2_ExitPolicy ==
    pc = "check_exit_conditions returned" =>
        LET critical == NumberOf(arg, "critical")
            major == NumberOf(arg, "major")
        IN /\ critical >= 1 => ret = 1 /\ Printed("FAILURE: critical")
           /\ (critical = 0 /\ major >= 4) =>
                  ret = 1 /\ Printed("FAILURE: too many major")
           /\ (critical = 0 /\ major \in 1..3) =>
                  ret = 0 /\ Printed("WARNING: major")
           /\ (critical = 0 /\ major = 0) => ret = 0 /\ Printed("SUCCESS")

\* exactly four majors and no critical: the smallest failing count
C2_Witness ==
    /\ pc = "check_exit_conditions returned"
    /\ NumberOf(arg, "critical") = 0
    /\ NumberOf(arg, "major") = 4
    /\ ret = 1

\* C3: for a threshold >= 0 categorize_severity returns the bucket of the
\* asymmetric table with strict comparisons; a change equal to 1x, 2x or 3x
\* the threshold falls in the lower bucket, 0 is negligible and an
\* improvement is never critical.
C3_SeverityTable ==
    (pc = "categorize_severity returned" /\ arg.threshold >= 0) =>
        LET c == arg.change_percent
            t == arg.threshold
            a == Abs(arg.change_percent)
        IN /\ (c > 0 /\ a > 3 * t) => ret = "critical"
           /\ (c > 0 /\ a <= 3 * t /\ a > 2 * t) => ret = "major"
           /\ (c > 0 /\ a <= 2 * t /\ a > t) => ret = "minor"
           /\ (c > 0 /\ a <= t) => ret = "negligible"
           /\ (c <= 0 /\ a > 2 * t) => ret = "major_improvement"
           /\ (c <= 0 /\ a <= 2 * t /\ a > t) => ret = "minor_improvement"
           /\ (c <= 0 /\ a <= t) => ret = "negligible"
           /\ c = 0 => ret = "negligible"
           /\ (t > 0 /\ c = t) => ret = "negligible"
           /\ (t > 0 /\ c = 2 * t) => ret = "minor"
           /\ (t > 0 /\ c = 3 * t) => ret = "major"
           /\ c <= 0 => ret # "critical"

\* a degradation of exactly three times the threshold is major
C3_Witness ==
    /\ pc = "categorize_severity returned"
    /\ arg.threshold = 5
    /\ arg.change_percent = 15
    /\ ret = "major"

\* C4: in every record of analyze_regressions (threshold >= 0) isRegression
\* and isImprovement are never both true, and both are false only when
\* |percentageChange| <= threshold.
C4_FlagsExclusive ==
    Analyzed =>
        \A i \in 1..Len(regressions) :
            LET r == regressions[i]
            IN /\ ~(r.isRegression /\ r.isImprovement)
               /\ (~r.isRegression /\ ~r.isImprovement)
                      => Abs(r.percentageChange) <= args.threshold

\* a regression, an improvement and a change sitting on the threshold
C4_Witness ==
    /\ Analyzed
    /\ args.threshold = 10
    /\ \E i \in 1..Len(regressions) : regressions[i].isRegression
    /\ \E i \in 1..Len(regressions) :
           /\ regressions[i].percentageChange = -10
           /\ ~regressions[i].isImprovement
    /\ \E i \in 1..Len(regressions) :
           /\ regressions[i].percentageChange = 10
           /\ ~regressions[i].isRegression

\* C5: in every record of analyze_regressions (threshold >= 0) the severity
\* agrees with the flags: critical implies isRegression, and
\* major_improvement or minor_improvement implies isImprovement.
C5_SeverityAgreesWithFlags ==
    Analyzed =>
        \A i \in 1..Len(regressions) :
            LET r == regressions[i]
            IN /\ r.severity = "critical" => r.isRegression
               /\ r.severity \in {"major_improvement", "minor_improvement"}
                      => r.isImprovement

\* a critical record and an improvement in one result
C5_Witness ==
    /\ Analyzed
    /\ \E i \in 1..Len(regressions) :
           regressions[i].severity = "critical" /\ regressions[i].isRegression
    /\ \E i \in 1..Len(regressions) :
           /\ regressions[i].severity = "minor_improvement"
           /\ regressions[i].isImprovement

\* C6: with non-zero baseline values analyze_regressions returns exactly one
\* record for each metric name present in both the current averageTimes and
\* the baseline, and none for a name present in one of them only.
C6_OneRecordPerSharedMetric ==
    (/\ pc # "analyze"
     /\ current_results.type = "object"
     /\ \A k \in SharedNames : DictGet(baseline_results, k) # 0)
    => /\ pc = "report"
       /\ {regressions[i].testName : i \in 1..Len(regressions)} = SharedNames
       /\ Len(regressions) = Cardinality(SharedNames)

\* a new metric, a removed metric and a shared one
C6_Witness ==
    /\ pc = "report"
    /\ DictKeys(CurrentTimes) = {1, 2}
    /\ DictKeys(baseline_results) = {2, 3}
    /\ Len(regressions) = 1
    /\ regressions[1].testName = 2

\* C7: in the returned list every regression precedes every non-regression,
\* and within each of the two groups |percentageChange| is non-increasing.
C7_Ranked ==
    pc = "report" =>
        \A i, j \in 1..Len(regressions) :
            i < j =>
                /\ regressions[j].isRegression => regressions[i].isRegression
                /\ regressions[i].isRegression = regressions[j].isRegression
                      => Abs(regressions[i].percentageChange)
                             >= Abs(regressions[j].percentageChange)

\* three records that the sort had to reverse
C7_Witness ==
    /\ pc = "report"
    /\ Len(regressions) = 3
    /\ Len(CurrentTimes) = 3
    /\ regressions[1].isRegression /\ regressions[2].isRegression
    /\ ~regressions[3].isRegression
    /\ Abs(regressions[1].percentageChange) > Abs(regressions[2].percentageChange)
    /\ regressions[1].testName = CurrentTimes[3][1]
    /\ regressions[3].testName = CurrentTimes[1][1]

\* C8: a shared metric whose baseline is 0 does not end analyze_regressions
\* in a numeric fault, and the other shared metrics still get their records.
C8_ZeroBaselineDefined ==
    (pc # "analyze" /\ current_results.type = "object")
    => /\ fault = "none"
       /\ \A k \in SharedNames :
              DictGet(baseline_results, k) # 0
                  => \E i \in 1..Len(regressions) : regressions[i].testName = k

\* C9: with the current results loaded and an empty or unloadable baseline,
\* main writes the report with no details and five zero counts, runs
\* neither the analysis nor the exit check, and exits 0, with or without
\* --fail-on-regression.
C9_EmptyBaseline ==
    (pc # "load_baseline" /\ Truthy(current_results) /\ baseline_results = <<>>)
    => /\ pc = "exited"
       /\ exit_code = 0
       /\ fault = "none"
       /\ output_file.written
       /\ output_file.report.details = <<>>
       /\ output_file.report.summary.total_metrics = 0
       /\ output_file.report.summary.regressions = 0
       /\ output_file.report.summary.improvements = 0
       /\ output_file.report.summary.critical_regressions = 0
       /\ output_file.report.summary.major_regressions = 0
       /\ regressions = <<>>
       /\ stdout = <<"Warning: No baseline data available">>

\* the flag is set and the baseline file holds no row
C9_Witness ==
    /\ pc = "exited"
    /\ args.fail_on_regression
    /\ Truthy(current_results)
    /\ baseline_file.kind = "csv"
    /\ baseline_results = <<>>
    /\ output_file.written
    /\ exit_code = 0

\* C10: a current file that is missing, unparseable or malformed (a document
\* without an averageTimes mapping included) ends main with a non-zero
\* status before the baseline is loaded, and no report is written.
C10_CurrentLoadFailureFatal ==
    (/\ pc # "load_current"
     /\ ~(/\ current_file.kind = "json"
          /\ current_file.doc.type = "object"
          /\ current_file.doc.hasAverageTimes))
    => /\ pc = "exited"
       /\ exit_code # 0
       /\ baseline_file = MissingFile /\ baseline_results = <<>>
       /\ ~output_file.written

(***************************************************************************)
(* load_baseline_results applied on its own, to a missing file and to      *)
(* every file of a bounded number of rows, good and bad                    *)
(***************************************************************************)
\* a row as csv.reader yields it: a name and a number, a name and other
\* text, a name alone, an empty line, and a row with a third field
BaselineRows ==
    {<<n, Num(v)>> : n \in 1..2, v \in BaselineValues}
    \cup {<<n, Text>> : n \in 1..2}
    \cup {<<n>> : n \in 1..2}
    \cup {<<>>, <<1, Num(100), Text>>}

LoadedFiles ==
    {MissingFile}
    \cup {CsvFile(rows) : rows \in UNION {[1..n -> BaselineRows] : n \in 0..MaxRows}}

InitBaseline ==
    /\ pc = "load_baseline_results"
    /\ baseline_file \in LoadedFiles
    /\ baseline_results = <<>>
    /\ args = [fail_on_regression |-> FALSE, verbose |-> FALSE,
               threshold |-> DefaultThreshold]
    /\ current_file = MissingFile
    /\ current_results = EmptyObject
    /\ regressions = <<>>
    /\ output_file = NoFile
    /\ stdout = <<>>
    /\ exit_code = 0
    /\ fault = "none"
    /\ arg = <<>>
    /\ ret = <<>>

LoadBaselineResults ==
    /\ pc = "load_baseline_results"
    /\ baseline_results' = load_baseline_results(baseline_file)
    /\ stdout' = IF baseline_file.kind = "csv" THEN stdout
                 ELSE Append(stdout, "Warning: Could not load baseline")
    /\ pc' = "load_baseline_results returned"
    /\ UNCHANGED <<args, current_file, baseline_file, current_results,
                   regressions, output_file, exit_code, fault, arg, ret>>

NextBaseline == LoadBaselineResults

SpecBaseline == InitBaseline /\ [][NextBaseline]_vars

\* the rows of the baseline file that parse as (string, float)
GoodRows ==
    {i \in 1..Len(baseline_file.rows) :
        /\ Len(baseline_file.rows[i]) >= 2
        /\ baseline_file.rows[i][2][1] = "num"}

\* C11: a row of a readable baseline file whose second field is not a
\* number, or that has fewer than two fields, is skipped; every other row,
\* before and after it, is loaded (a name keeps the value of its last good
\* row), so a bad row never aborts the load or discards rows already read.
C11_BadRowsSkipped ==
    (pc = "load_baseline_results returned" /\ baseline_file.kind = "csv") =>
        /\ DictKeys(baseline_results)
               = {baseline_file.rows[i][1] : i \in GoodRows}
        /\ \A i \in GoodRows :
               (\A j \in GoodRows :
                    j > i => baseline_file.rows[j][1] # baseline_file.rows[i][1])
               => DictGet(baseline_results, baseline_file.rows[i][1])
                      = baseline_file.rows[i][2][2]

\* a good row, a row with a non-numeric value, and a good row after it
C11_Witness ==
    /\ pc = "load_baseline_results returned"
    /\ baseline_file.kind = "csv"
    /\ baseline_file.rows = << <<1, Num(100)>>, <<2, Text>>, <<2, Num(0)>> >>
    /\ baseline_results = << <<1, 100>>, <<2, 0>> >>

(***************************************************************************)
(* print_regression_summary applied on its own, to the ranked lists that   *)
(* analyze_regressions returns                                             *)
(***************************************************************************)
\* against a baseline of 100: changes of -30, -20, 0 and +30 percent
SummarizedCurrentValues == {70, 80, 100, 130}

SummarizedThresholds == {-5, 5, 10}

SummarizedBaseline == [n \in 1..MaxSummarized |-> <<n, 100>>]

RankedLists(threshold) ==
    {analyze_regressions(ObjectWith(t), SummarizedBaseline, threshold).regressions :
        t \in AscDicts(1..MaxSummarized, SummarizedCurrentValues)}

InitSummary ==
    /\ pc = "print_regression_summary"
    /\ args \in [fail_on_regression : {FALSE}, verbose : {TRUE},
                  threshold : SummarizedThresholds]
    /\ regressions \in RankedLists(args.threshold)
    /\ arg = regressions
    /\ ret = <<>>
    /\ current_file = MissingFile
    /\ baseline_file = MissingFile
    /\ current_results = EmptyObject
    /\ baseline_results = <<>>
    /\ output_file = NoFile
    /\ stdout = <<>>
    /\ exit_code = 0
    /\ fault = "none"

PrintRegressionSummary ==
    /\ pc = "print_regression_summary"
    /\ ret' = print_regression_summary(regressions)
    /\ stdout' = Append(stdout, "PERFORMANCE REGRESSION ANALYSIS")
    /\ pc' = "print_regression_summary returned"
    /\ UNCHANGED <<args, current_file, baseline_file, current_results,
                   baseline_results, regressions, output_file, exit_code,
                   fault, arg>>

NextSummary == PrintRegressionSummary

SpecSummary == InitSummary /\ [][NextSummary]_vars

\* the names of the improvements in the ranked list
ImprovedNames ==
    {regressions[i].testName : i \in {k \in 1..Len(regressions) :
                                          regressions[k].isImprovement}}

ShownNames == {ret.improvements[i].testName : i \in 1..Len(ret.improvements)}

\* C12: for a ranked list of analyze_regressions (threshold >= 0) the at most
\* 5 records printed under TOP IMPROVEMENTS are improvements, are the ones
\* with the most negative percentageChange, are listed most negative first,
\* and the record list itself is left as it was.
C12_TopImprovements ==
    (pc = "print_regression_summary returned" /\ args.threshold >= 0) =>
        /\ Len(ret.improvements)
               = (IF Cardinality(ImprovedNames) < 5
                  THEN Cardinality(ImprovedNames) ELSE 5)
        /\ Cardinality(ShownNames) = Len(ret.improvements)
        /\ \A i \in 1..Len(ret.improvements) :
               /\ ret.improvements[i].isImprovement
               /\ \E k \in 1..Len(regressions) :
                      regressions[k] = ret.improvements[i]
        /\ \A i, j \in 1..Len(ret.improvements) :
               i < j => ret.improvements[i].percentageChange
                            <= ret.improvements[j].percentageChange
        /\ \A k \in 1..Len(regressions) :
               (regressions[k].isImprovement
                    /\ regressions[k].testName \notin ShownNames)
               => \A i \in 1..Len(ret.improvements) :
                      ret.improvements[i].percentageChange
                          <= regressions[k].percentageChange
        /\ regressions = arg

\* six improvements of two sizes behind a regression-free list: five are
\* shown and the one left out is one of the smaller ones
C12_Witness ==
    /\ pc = "print_regression_summary returned"
    /\ args.threshold = 5
    /\ Cardinality(ImprovedNames) = 6
    /\ Len(ret.improvements) = 5
    /\ ret.improvements[1].percentageChange = -30
    /\ ret.improvements[5].percentageChange = -20
    /\ \E k \in 1..Len(regressions) :
           /\ regressions[k].testName \notin ShownNames
           /\ regressions[k].percentageChange = -20

(***************************************************************************)
(* The ranking sort of analyze_regressions applied twice, to the record    *)
(* lists its loop builds, in every insertion order of the current metrics  *)
(***************************************************************************)
\* against a baseline of 100: changes of -10, 0, +10 and +30 percent; -10
\* and +10 tie on the magnitude, and equal values tie on both keys
RankedCurrentValues == {90, 100, 110, 130}

RankedThresholds == {5, 10}

RankedBaseline == [n \in 1..MaxRanked |-> <<n, 100>>]

\* the lists as they are before line 69 sorts them
UnrankedLists ==
    {compare_loop(t, RankedBaseline, threshold, <<>>).regressions :
        t \in AllDicts(1..MaxRanked, RankedCurrentValues),
        threshold \in RankedThresholds}

InitRank ==
    /\ pc = "rank"
    /\ regressions \in UnrankedLists
    /\ arg = <<>>
    /\ ret = <<>>
    /\ args = [fail_on_regression |-> FALSE, verbose |-> FALSE,
               threshold |-> DefaultThreshold]
    /\ current_file = MissingFile
    /\ baseline_file = MissingFile
    /\ current_results = EmptyObject
    /\ baseline_results = <<>>
    /\ output_file = NoFile
    /\ stdout = <<>>
    /\ exit_code = 0
    /\ fault = "none"

\* regressions.sort(key=...): the list is sorted in place; arg keeps the
\* list as it was before the call
Rank ==
    /\ pc = "rank"
    /\ arg' = regressions
    /\ regressions' = list_sort(regressions)
    /\ pc' = "ranked"
    /\ UNCHANGED <<args, current_file, baseline_file, current_results,
                   baseline_results, output_file, stdout, exit_code, fault,
                   ret>>

\* the same sort applied to the ranked list
RankAgain ==
    /\ pc = "ranked"
    /\ arg' = regressions
    /\ regressions' = list_sort(regressions)
    /\ pc' = "ranked again"
    /\ UNCHANGED <<args, current_file, baseline_file, current_results,
                   baseline_results, output_file, stdout, exit_code, fault,
                   ret>>

NextRank == Rank \/ RankAgain

SpecRank == InitRank /\ [][NextRank]_vars

\* C13: ranking is idempotent: the ranking sort applied to an already
\* ranked list returns the same list in the same order, ties on both keys
\* included.
C13_RankIdempotent ==
    pc = "ranked again" => regressions = arg

\* two records that tie on both keys, kept against the order of their
\* names, ahead of a third record
C13_Witness ==
    /\ pc = "ranked again"
    /\ Len(regressions) = 3
    /\ sort_key(regressions[1]) = sort_key(regressions[2])
    /\ regressions[1].testName > regressions[2].testName
    /\ sort_key(regressions[2]) # sort_key(regressions[3])
    /\ regressions = arg

====
